---------------------------- MODULE Spec2Model ----------------------------
(***************************************************************************)
(* Model of etl.py: a batch job that reads song metadata and listening     *)
(* logs, derives five tables (users, time, songplays, songs, artists) and  *)
(* writes each one as a parquet directory under the output location.       *)
(*                                                                         *)
(* State:                                                                  *)
(*   song_data, log_data  the records under the input location             *)
(*   tz       the local time zone of the session and of the python        *)
(*            workers: its offsets from UTC and its daylight-saving time  *)
(*   worker   the offset from UTC that the python worker of the session   *)
(*            remembers from its previous timestamp conversion            *)
(*   pc       the position of main() in its call chain                     *)
(*   run      the number of invocations of main() so far                   *)
(*   error    the stage and kind of the exception that ended the run       *)
(*   out      the output location: a function from the table paths that    *)
(*            exist to the rows they hold                                  *)
(*   aborted  the paths that a failed write job left behind: directories  *)
(*            that exist and hold no rows                                  *)
(*   writer   history: the run that created each path                      *)
(*   prev     history: a table of an earlier complete run (SpecTwice)      *)
(* Every row carries in the field "src" the identity of the input          *)
(* record(s) it was derived from (history only: no transformation reads    *)
(* it, and Visible erases it).                                             *)
(***************************************************************************)
EXTENDS Integers, Sequences, FiniteSets, TLC

VARIABLES song_data, log_data, tz, worker, pc, run, error, out, aborted, writer, prev

vars == <<song_data, log_data, tz, worker, pc, run, error, out, aborted, writer, prev>>

(***************************************************************************)
(* Bounds of the model.                                                    *)
(***************************************************************************)
\* largest number of song files under song_data/*/*/*
MaxSongs == 3
\* largest number of log records under log_data/*/*
MaxLogs == 2
\* number of partitions of the joined dataframe
NumPartitions == 2
\* number of invocations of main() against the same locations
MaxRuns == 2
\* number of two-hour steps of the timestamp sweep across a new year
TsSweep == 6
\* largest number of plays converted one after the other
MaxPlays == 3

\* a missing value of a column
Null == "null"
\* a missing ts (ts values are records, see Millis)
NullTs == [null |-> TRUE]

(***************************************************************************)
(* Calendar arithmetic: what datetime.fromtimestamp and date_format do.    *)
(* A ts value is a 64-bit count of milliseconds; it is kept as the pair    *)
(* [s, ms] standing for s * 1000 + ms, so that no intermediate value       *)
(* exceeds 32 bits.                                                        *)
(***************************************************************************)
Millis(s, ms) == [s |-> s, ms |-> ms]

IsLeap(y) == (y % 4 = 0 /\ y % 100 # 0) \/ y % 400 = 0

DaysInMonth(y, m) ==
    IF m = 2 THEN (IF IsLeap(y) THEN 29 ELSE 28)
    ELSE IF m \in {4, 6, 9, 11} THEN 30 ELSE 31

RECURSIVE DaysBeforeMonth(_, _)
DaysBeforeMonth(y, m) ==
    IF m = 1 THEN 0 ELSE DaysBeforeMonth(y, m - 1) + DaysInMonth(y, m - 1)

\* Proleptic Gregorian date of the day number z (days since 1970-01-01),
\* computed era by era (400 years), with years starting on 1 March: doe is the
\* day of the era, yoe the year of the era, doy the day of that year, mp the
\* month counted from March.
CivilOfMonth(era, yoe, doy, mp) ==
    [year |-> yoe + era * 400 + (IF mp < 10 THEN 0 ELSE 1),
     month |-> IF mp < 10 THEN mp + 3 ELSE mp - 9,
     day |-> doy - (153 * mp + 2) \div 5 + 1]

CivilOfDayOfYear(era, yoe, doy) == CivilOfMonth(era, yoe, doy, (5 * doy + 2) \div 153)

CivilOfYearOfEra(era, doe, yoe) ==
    CivilOfDayOfYear(era, yoe, doe - (365 * yoe + yoe \div 4 - yoe \div 100))

CivilOfDayOfEra(era, doe) ==
    CivilOfYearOfEra(era, doe,
        (doe - doe \div 1460 + doe \div 36524 - doe \div 146096) \div 365)

CivilOfShifted(zz) == CivilOfDayOfEra(zz \div 146097, zz % 146097)

CivilFromDays(z) == CivilOfShifted(z + 719468)

\* day of the week of day number z, 0 = Sunday (1970-01-01 was a Thursday)
DayOfWeek(z) == (z + 4) % 7

\* the fields of the wall clock on day number z, sod seconds after midnight,
\* whose date is c
CivilFields(z, sod, c, doy) ==
    [year |-> c.year, month |-> c.month, day |-> c.day,
     hour |-> sod \div 3600, minute |-> (sod % 3600) \div 60,
     second |-> sod % 60,
     doy |-> doy,
     dow |-> DayOfWeek(z),
     dowFirstOfMonth |-> DayOfWeek(z - c.day + 1),
     dowFirstOfYear |-> DayOfWeek(z - doy + 1),
     daysInYear |-> IF IsLeap(c.year) THEN 366 ELSE 365]

CivilOfDate(z, sod, c) ==
    CivilFields(z, sod, c, DaysBeforeMonth(c.year, c.month) + c.day)

CivilOfLocal(loc) ==
    CivilOfDate(loc \div 86400, loc % 86400, CivilFromDays(loc \div 86400))

\* wall-clock fields of the instant `sec` seconds after the epoch, in a zone
\* `offset` minutes east of UTC
Civil(sec, offset) == CivilOfLocal(sec + offset * 60)

\* A time zone: its standard offset in minutes east of UTC and the intervals
\* <<start, end>> of instants (seconds after the epoch) during which
\* daylight-saving time, one hour ahead of the standard offset, is in force.
Zone(std, dst) == [std |-> std, dst |-> dst]

\* the zone without daylight-saving time at offset 0
UTC == Zone(0, {})

IsDst(zone, sec) == \E iv \in zone.dst : iv[1] <= sec /\ sec < iv[2]

\* minutes east of UTC of the zone's wall clock at the instant sec
UtcOffset(zone, sec) == IF IsDst(zone, sec) THEN zone.std + 60 ELSE zone.std

\* datetime.fromtimestamp: the naive local wall clock of the instant sec, as
\* the seconds from 1970-01-01T00:00:00 to it on that clock
fromtimestamp(sec, zone) == sec + UtcOffset(zone, sec) * 60

\* TimestampType.toInternal on a naive datetime: time.mktime, the instant
\* whose local wall clock is the given one.  The C library (tm_isdst = -1)
\* starts from the instant that has this wall clock at the offset of the
\* previous conversion of the process (0 in a new process), takes the offset
\* in force at that instant, and moves to the other offset of the zone when
\* the wall clock does not come out; so a wall clock that occurs twice is
\* resolved by the previous conversion.
mktimeGuess(naive, zone, offset) ==
    naive - UtcOffset(zone, naive - offset * 60) * 60
mktimeOther(naive, zone, t) ==
    IF t = naive - zone.std * 60
    THEN naive - (zone.std + 60) * 60
    ELSE naive - zone.std * 60
mktimeFrom(naive, zone, t) ==
    IF fromtimestamp(t, zone) = naive THEN t ELSE mktimeOther(naive, zone, t)
mktime(naive, zone, offset) ==
    mktimeFrom(naive, zone, mktimeGuess(naive, zone, offset))

\* get_timestamp: datetime.fromtimestamp(x / 1000.0), a naive local datetime,
\* stored as a TimestampType: the instant of that wall clock, with microsecond
\* resolution; offset is what the worker remembers.  A null ts makes the
\* lambda raise (None / 1000.0), which is handled where the column is
\* materialised.
get_timestampWholeSeconds(x, zone, offset) ==
    [sec |-> mktime(fromtimestamp(x.s, zone), zone, offset), us |-> 0]
get_timestamp(x, zone, offset) ==
    [sec |-> mktime(fromtimestamp(x.s, zone), zone, offset), us |-> x.ms * 1000]

\* The field of the wall clock c that the pattern letter p stands for, printed
\* without padding.  Weeks are counted as java.util.Calendar does for the US
\* locale (weeks start on Sunday, the week holding 1 January is week 1).
WeekOfMonth(c) == (c.day - 1 + c.dowFirstOfMonth) \div 7 + 1

WeekOfYear(c) ==
    IF c.doy + (6 - c.dow) > c.daysInYear
    THEN 1
    ELSE (c.doy - 1 + c.dowFirstOfYear) \div 7 + 1

FormatField(c, p) ==
    CASE p = "H" -> ToString(c.hour)
      [] p = "D" -> ToString(c.doy)
      [] p = "w" -> ToString(WeekOfYear(c))
      [] p = "M" -> ToString(c.month)
      [] p = "y" -> ToString(c.year)
      [] p = "W" -> ToString(WeekOfMonth(c))

\* date_format(start_time, p) for the single-letter patterns used, in the
\* session time zone
date_format(start_time, p, zone) ==
    FormatField(Civil(start_time.sec, UtcOffset(zone, start_time.sec)), p)

(***************************************************************************)
(* The input location.  Each song file holds one record; src names the     *)
(* file (songs) or the file and the line in it (logs) a record was read    *)
(* from.  The log records are lines of one file: one task reads them, in   *)
(* the order of the lines.                                                 *)
(***************************************************************************)
SongRecord(src, song_id, title, artist_id, artist_name) ==
    [src |-> src, song_id |-> song_id, title |-> title, artist_id |-> artist_id,
     artist_name |-> artist_name, artist_location |-> Null,
     artist_latitude |-> Null, artist_longitude |-> Null,
     duration |-> "269.58322", year |-> "0"]

LogRecord(file, line, page, userId, level, song, ts) ==
    [src |-> <<file, line>>, page |-> page, userId |-> userId, firstName |-> "Ryan",
     lastName |-> "Smith", gender |-> "M", level |-> level, song |-> song,
     artist |-> "Elena", ts |-> ts, sessionId |-> "583",
     location |-> "San Jose-Sunnyvale-Santa Clara, CA", userAgent |-> "Mozilla/5.0"]

\* ts of the sample event of the data set: 1542241826796
SampleTs == Millis(1542241826, 796)
\* one hour before the month of November 2018 starts in UTC
OtherTs == Millis(1541026800, 0)

\* The song files that may be found under song_data/*/*/*: two files with the
\* same song_id and artist_id but different titles and names, two files with
\* the same title, and a file without song_id and artist_id.
SongFiles ==
    { SongRecord("A/A/A", "SOA", "Setanta matins", "ARA", "Elena"),
      SongRecord("A/A/B", "SOA", "Intro", "ARA", "Elena (live)"),
      SongRecord("A/B/A", "SOB", "Setanta matins", "ARB", "Casual"),
      SongRecord("A/B/C", Null, "Untitled", Null, "Unknown") }

\* The log records that may be found under log_data/*/*: two plays of one user
\* at the same ts with different levels, an event that is not a play, a play
\* without userId of a song no file has, and a play without ts.
LogLines ==
    { LogRecord("2018/11", 1, "NextSong", "26", "free", "Setanta matins", SampleTs),
      LogRecord("2018/11", 2, "NextSong", "26", "paid", "Intro", SampleTs),
      LogRecord("2018/11", 3, "Home", "8", "paid", "Setanta matins", OtherTs),
      LogRecord("2018/11", 4, "NextSong", Null, "free", "Nomatch", OtherTs),
      LogRecord("2018/11", 5, "NextSong", "8", "paid", "Setanta matins", NullTs) }

UpTo(S, n) == {T \in SUBSET S : Cardinality(T) <= n}

(***************************************************************************)
(* Dataframe operations.  A dataframe is a set of rows, a row a function   *)
(* from column names to values; "src" keeps rows of distinct records       *)
(* distinct, so a set is a bag of visible rows.                            *)
(***************************************************************************)
Visible(row) == [c \in DOMAIN row \ {"src"} |-> row[c]]

\* df.select(cols)
Select(df, cols) == {[c \in cols \cup {"src"} |-> r[c]] : r \in df}

\* SQL equality: null equals nothing
SqlEq(a, b) == a # Null /\ b # Null /\ a = b

\* df.filter(df["page"] == 'NextSong')
FilterNextSongOff(df) == df
FilterNextSong(df) == {r \in df : SqlEq(r.page, "NextSong")}

\* df.dropDuplicates([key]): one row of every group of rows with the same key
\* (null is a key value like any other); which row of a group survives is up
\* to the engine.  The set of possible results.
DropDuplicatesOff(df, key) == {df}
DropDuplicates(df, key) ==
    {S \in SUBSET df :
        \A r \in df : Cardinality({q \in S : q[key] = r[key]}) = 1}

\* df.dropna(subset=(key))
DropNa(df, key) == {r \in df : r[key] # Null}

\* spark.read.format("json").load(path): the glob must match a file
Loadable(data) == data # {}

song_columns == {"song_id", "title", "artist_id", "year", "duration"}
artist_columns == {"artist_id", "artist_name", "artist_location",
                   "artist_latitude", "artist_longitude"}
user_columns == {"userId", "firstName", "lastName", "gender", "level"}

\* the possible songs_table / artists_table / user_table
songs_table(df_song) ==
    {DropNa(S, "song_id") : S \in DropDuplicates(Select(df_song, song_columns), "song_id")}

artists_table(df_song) ==
    {DropNa(S, "artist_id") : S \in DropDuplicates(Select(df_song, artist_columns), "artist_id")}

user_tableByLevel(df) ==
    {DropNa(S, "userId") : S \in DropDuplicates(Select(df, user_columns), "level")}
user_table(df) ==
    {DropNa(S, "userId") : S \in DropDuplicates(Select(df, user_columns), "userId")}

\* the rows of df in the order of their lines
RECURSIVE InFileOrder(_), InFileOrderFrom(_, _)
InFileOrder(df) ==
    IF df = {} THEN <<>>
    ELSE InFileOrderFrom(df, CHOOSE r \in df : \A q \in df : r.src[2] <= q.src[2])
InFileOrderFrom(df, first) == <<first>> \o InFileOrder(df \ {first})

WithColumnRenamed(r, start_time) ==
    [c \in (DOMAIN r \ {"ts"}) \cup {"start_time"} |->
        IF c = "start_time" THEN start_time ELSE r[c]]

\* The python worker applies get_timestamp to the rows one after the other;
\* each conversion leaves its offset from UTC in the worker.  The result is
\* the converted rows and the offset the worker remembers at the end.
RECURSIVE ConvertRows(_, _, _, _), ConvertRow(_, _, _, _)
ConvertRows(rows, zone, offset, done) ==
    IF rows = <<>> THEN [rows |-> done, offset |-> offset]
    ELSE ConvertRow(rows, zone, get_timestamp(Head(rows).ts, zone, offset), done)
ConvertRow(rows, zone, start_time, done) ==
    ConvertRows(Tail(rows), zone, UtcOffset(zone, start_time.sec),
                done \cup {WithColumnRenamed(Head(rows), start_time)})

\* df.withColumn("ts", get_timestamp(df.ts)).withColumnRenamed('ts', 'start_time'),
\* computed by a worker that remembers offset
WithStartTime(df, zone, offset) == ConvertRows(InFileOrder(df), zone, offset, {}).rows

\* what the worker remembers after it has converted the rows of df
WorkerAfter(df, zone, offset) == ConvertRows(InFileOrder(df), zone, offset, {}).offset

\* the python lambda raises on a null ts
UdfRaises(df) == \E r \in df : r.ts = NullTs

TimeRow(r, zone) ==
    [src |-> r.src, start_time |-> r.start_time,
     hour |-> date_format(r.start_time, "H", zone),
     day |-> date_format(r.start_time, "D", zone),
     week |-> date_format(r.start_time, "w", zone),
     month |-> date_format(r.start_time, "M", zone),
     year |-> date_format(r.start_time, "y", zone),
     weekday |-> date_format(r.start_time, "W", zone)]

\* time_table: one row per row of df, no dropDuplicates
time_table(df, zone, offset) == {TimeRow(r, zone) : r \in WithStartTime(df, zone, offset)}

\* log_df.join(song_df, log_df.song == song_df.title).select(...)
JoinRow(l, s, zone) ==
    [src |-> <<l.src, s.src>>, start_time |-> l.start_time, userId |-> l.userId,
     level |-> l.level, song_id |-> s.song_id, artist_id |-> s.artist_id,
     sessionId |-> l.sessionId, location |-> l.location,
     userAgent |-> l.userAgent,
     year |-> date_format(l.start_time, "y", zone),
     month |-> date_format(l.start_time, "M", zone)]

JoinOnArtist(l, s) == SqlEq(l.artist, s.artist_name)
JoinOn(l, s) == SqlEq(l.song, s.title)

Joined(df, song_df, zone, offset) ==
    {JoinRow(l, s, zone) :
        <<l, s>> \in {p \in WithStartTime(df, zone, offset) \X song_df : JoinOn(p[1], p[2])}}

\* monotonically_increasing_id(): the partition index in the upper 31 bits and
\* the position of the row within its partition in the lower 33 bits.  The
\* 64-bit value p * 2^33 + k is kept as the pair <<p, k>>.
IdWithoutPartition(p, k) == <<0, k>>
MonotonicallyIncreasingId(p, k) == <<p, k>>

\* The engine decides in which partition a row lies (part) and in which order
\* the rows of a partition are produced (rank).
Layouts(rows) ==
    [rows -> 0 .. NumPartitions - 1] \X
    {f \in [rows -> 0 .. Cardinality(rows) - 1] : \A a, b \in rows : f[a] = f[b] => a = b}

RowId(rows, lay, r) ==
    MonotonicallyIncreasingId(
        lay[1][r],
        Cardinality({q \in rows : lay[1][q] = lay[1][r] /\ lay[2][q] < lay[2][r]}))

\* the possible songplays_table
songplays_table(df, song_df, zone, offset) ==
    LET rows == Joined(df, song_df, zone, offset)
    IN  {{[c \in DOMAIN r \cup {"songplay_id"} |->
              IF c = "songplay_id" THEN RowId(rows, lay, r) ELSE r[c]] : r \in rows}
         : lay \in Layouts(rows)}


(***************************************************************************)
(* The job.                                                                *)
(***************************************************************************)
user_parq_path == "user_table_parquet"
time_parq_path == "time_table_parquet"
songplay_parq_path == "songplay_table_parquet"
song_parq_path == "songs_table_parquet"
artist_parq_path == "artist_table_parquet"

Paths == {user_parq_path, time_parq_path, songplay_parq_path, song_parq_path,
          artist_parq_path}

LogStages == {"users", "time", "songplays"}
SongStages == {"songs", "artists"}
Running == {"create_spark_session"} \cup LogStages \cup SongStages

NoError == [stage |-> "none", kind |-> "none"]
NoTables == [p \in {} |-> {}]

\* the mode of every DataFrameWriter of the job: .parquet(path) is called
\* without .mode(...), which is "errorifexists"
SaveModeOverwrite == "overwrite"
SaveMode == "errorifexists"

\* main(): create_spark_session(), process_log_data(...), process_song_data(...),
\* each function writing its tables in the order of its statements
FollowingSongFirst(stage) ==
    CASE stage = "create_spark_session" -> "songs"
      [] stage = "songs" -> "artists"
      [] stage = "artists" -> "users"
      [] stage = "users" -> "time"
      [] stage = "time" -> "songplays"
      [] stage = "songplays" -> "done"
Following(stage) ==
    CASE stage = "create_spark_session" -> "users"
      [] stage = "users" -> "time"
      [] stage = "time" -> "songplays"
      [] stage = "songplays" -> "songs"
      [] stage = "songs" -> "artists"
      [] stage = "artists" -> "done"

\* an exception raised in a stage is caught nowhere: it ends main()
AfterFailureContinue(stage) == IF stage \in LogStages THEN "songs" ELSE "failed"
AfterFailure(stage) == "failed"

df == FilterNextSong(log_data)

Raise(kind) ==
    /\ pc' = AfterFailure(pc)
    /\ error' = [stage |-> pc, kind |-> kind]
    /\ UNCHANGED <<song_data, log_data, tz, worker, run, out, aborted, writer, prev>>

\* the writer refuses a path that exists, before any row is computed
PathConflict(path) == SaveMode = "errorifexists" /\ path \in DOMAIN out

\* An exception raised while the write job runs: the job has created the
\* destination directory, and aborting the job removes what the tasks wrote
\* but not the directory.
RaiseInWriteJob(kind, path) ==
    /\ pc' = AfterFailure(pc)
    /\ error' = [stage |-> pc, kind |-> kind]
    /\ out' = [p \in DOMAIN out \cup {path} |-> IF p = path THEN {} ELSE out[p]]
    /\ aborted' = aborted \cup {path}
    /\ writer' = [writer EXCEPT ![path] = run]
    /\ UNCHANGED <<song_data, log_data, tz, worker, run, prev>>

\* the path that a stage writes
StagePath(stage) ==
    CASE stage = "users" -> user_parq_path
      [] stage = "time" -> time_parq_path
      [] stage = "songplays" -> songplay_parq_path
      [] stage = "songs" -> song_parq_path
      [] stage = "artists" -> artist_parq_path

\* the stage gets as far as its write job: what it loads is there and the
\* writer accepts the path
ReachesWriteJob(stage) ==
    /\ stage \in LogStages \cup SongStages
    /\ stage = "users" => Loadable(log_data)
    /\ stage \in {"songplays", "songs"} => Loadable(song_data)
    /\ ~PathConflict(StagePath(stage))

\* table.write.parquet(path), for any of the possible contents of the table;
\* remembered is the offset in the worker once the table is computed
Write(path, tables, remembered) ==
    IF PathConflict(path)
    THEN Raise("AnalysisException: path already exists")
    ELSE /\ \E t \in tables :
              out' = [p \in DOMAIN out \cup {path} |-> IF p = path THEN t ELSE out[p]]
         /\ writer' = [writer EXCEPT ![path] = run]
         /\ pc' = Following(pc)
         /\ worker' = remembered
         /\ UNCHANGED <<song_data, log_data, tz, run, error, aborted, prev>>

Init ==
    /\ song_data \in UpTo(SongFiles, MaxSongs)
    /\ log_data \in UpTo(LogLines, MaxLogs)
    /\ tz = UTC
    /\ worker = 0
    /\ pc = "idle"
    /\ run = 0
    /\ error = NoError
    /\ out = NoTables
    /\ aborted = {}
    /\ writer = [p \in Paths |-> 0]
    /\ prev = NoTables

\* python etl.py: a new process, whose workers have converted nothing
main ==
    /\ pc \in {"idle", "done", "failed"}
    /\ run < MaxRuns
    /\ pc' = "create_spark_session"
    /\ run' = run + 1
    /\ error' = NoError
    /\ worker' = 0
    /\ UNCHANGED <<song_data, log_data, tz, out, aborted, writer, prev>>

create_spark_session ==
    /\ pc = "create_spark_session"
    /\ pc' = Following(pc)
    /\ UNCHANGED <<song_data, log_data, tz, worker, run, error, out, aborted, writer, prev>>

\* process_log_data, up to the write of the users table
process_log_data_users ==
    /\ pc = "users"
    /\ IF ~Loadable(log_data)
       THEN Raise("AnalysisException: Path does not exist")
       ELSE Write(user_parq_path, user_table(df), worker)

\* process_log_data, up to the write of the time table
process_log_data_time ==
    /\ pc = "time"
    /\ IF ~PathConflict(time_parq_path) /\ UdfRaises(df)
       THEN RaiseInWriteJob("PythonException: TypeError", time_parq_path)
       ELSE Write(time_parq_path, {time_table(df, tz, worker)},
                  WorkerAfter(df, tz, worker))

\* process_log_data, up to the write of the songplays table.  The rows are
\* converted again, by the worker of the time table when the engine reuses
\* it, else by a new one.
process_log_data_songplays ==
    /\ pc = "songplays"
    /\ IF ~Loadable(song_data)
       THEN Raise("AnalysisException: Path does not exist")
       ELSE IF ~PathConflict(songplay_parq_path) /\ UdfRaises(df)
       THEN RaiseInWriteJob("PythonException: TypeError", songplay_parq_path)
       ELSE \E offset \in {0, worker} :
               Write(songplay_parq_path, songplays_table(df, song_data, tz, offset),
                     WorkerAfter(df, tz, offset))

\* process_song_data, up to the write of the songs table
process_song_data_songs ==
    /\ pc = "songs"
    /\ IF ~Loadable(song_data)
       THEN Raise("AnalysisException: Path does not exist")
       ELSE Write(song_parq_path, songs_table(song_data), worker)

\* process_song_data, up to the write of the artists table
process_song_data_artists ==
    /\ pc = "artists"
    /\ Write(artist_parq_path, artists_table(song_data), worker)

\* The engine or the object store fails the current stage: either before its
\* write job has started (while the session is built or the input is read),
\* which leaves the output location as it was, or inside the write job, which
\* leaves the destination directory with no rows.
EngineFailure ==
    /\ pc \in Running
    /\ \/ Raise("SparkException")
       \/ /\ ReachesWriteJob(pc)
          /\ RaiseInWriteJob("SparkException", StagePath(pc))

\* somebody empties the output location between two runs
EmptyOutput ==
    /\ pc \in {"done", "failed"}
    /\ out' = NoTables
    /\ aborted' = {}
    /\ pc' = "idle"
    /\ UNCHANGED <<song_data, log_data, tz, worker, run, error, writer, prev>>

\* the same, remembering in prev what a complete run had written to one of
\* the paths, any of them (history)
EmptyOutputKeeping ==
    /\ pc \in {"done", "failed"}
    /\ IF pc = "done"
       THEN \E p \in DOMAIN out : prev' = [q \in {p} |-> out[p]]
       ELSE prev' = NoTables
    /\ out' = NoTables
    /\ aborted' = {}
    /\ pc' = "idle"
    /\ UNCHANGED <<song_data, log_data, tz, worker, run, error, writer>>

Next ==
    \/ main
    \/ create_spark_session
    \/ process_log_data_users
    \/ process_log_data_time
    \/ process_log_data_songplays
    \/ process_song_data_songs
    \/ process_song_data_artists
    \/ EngineFailure
    \/ EmptyOutput

Spec == Init /\ [][Next]_vars

\* Two runs compared: as Next, with one table of a complete run remembered
\* when the output location is emptied.  Every table is remembered in some
\* behaviour, so a property of each remembered table is one of all five.
NextTwice ==
    \/ main
    \/ create_spark_session
    \/ process_log_data_users
    \/ process_log_data_time
    \/ process_log_data_songplays
    \/ process_song_data_songs
    \/ process_song_data_artists
    \/ EngineFailure
    \/ EmptyOutputKeeping

\* America/Los_Angeles and Europe/Berlin with their daylight-saving time of
\* 2018 (every sample outside 2018 lies in a winter)
LosAngeles == Zone(-480, {<<1520762400, 1541322000>>})
Berlin == Zone(60, {<<1521939600, 1540688400>>})

Zones == {UTC, LosAngeles, Berlin}

\* 01:30 on 4 November 2018 in Los Angeles, before and after the clocks are
\* set back, and 02:30 on 28 October 2018 in Berlin likewise
FirstHalfPastOne == Millis(1541320200, 0)
SecondHalfPastOne == Millis(1541323800, 0)
FirstHalfPastTwo == Millis(1540686600, 0)
SecondHalfPastTwo == Millis(1540690200, 0)
\* a summer's day
SummerTs == Millis(1530403200, 0)

Play(line, ts) == LogRecord("2018/11", line, "NextSong", "26", "free", "Setanta matins", ts)
OtherPlay(line, ts) == LogRecord("2018/11", line, "NextSong", "26", "free", "Nomatch", ts)

\* the same, and a log of Los Angeles: a play in the repeated hour followed
\* by one in the winter
InitTwice ==
    \/ Init
    \/ /\ song_data = {SongRecord("A/A/A", "SOA", "Setanta matins", "ARA", "Elena")}
       /\ log_data = {Play(1, SecondHalfPastOne), Play(2, SampleTs)}
       /\ tz = LosAngeles
       /\ worker = 0
       /\ pc = "idle"
       /\ run = 0
       /\ error = NoError
       /\ out = NoTables
       /\ aborted = {}
       /\ writer = [p \in Paths |-> 0]
       /\ prev = NoTables

SpecTwice == InitTwice /\ [][NextTwice]_vars

\* The timestamp conversion on its own: under each of the time zones one
\* play whose ts is drawn from TsSamples, and under each zone with a
\* daylight-saving time up to MaxPlays plays, in the order of their lines,
\* whose ts are drawn from the samples around the end of it; the first play
\* is of the song of the one song file (the first row is the one that a
\* worker converts differently when it is reused).
TsSamples ==
    {Millis(1546279200 + k * 7200, 0) : k \in 0 .. TsSweep}
    \cup {SampleTs, OtherTs, Millis(1542231826, 0), Millis(951825600, 999),
          Millis(1583020799, 500), Millis(86400, 1), SummerTs}
    \cup {Millis(1541320200 + k * 3600, 0) : k \in 0 .. 2}
    \cup {Millis(1540686600 + k * 3600, 0) : k \in 0 .. 2}
    \cup {Millis(1520760600 + k * 3600, 0) : k \in 0 .. 1}

DstSamples(zone) ==
    IF zone = LosAngeles THEN {FirstHalfPastOne, SecondHalfPastOne, SampleTs}
    ELSE IF zone = Berlin THEN {FirstHalfPastTwo, SecondHalfPastTwo, SummerTs}
    ELSE {}

Plays(zone) ==
    {{Play(1, t)} : t \in TsSamples}
    \cup UNION {{{IF i = 1 THEN Play(i, f[i]) ELSE OtherPlay(i, f[i]) : i \in 1 .. n}
                    : f \in [1 .. n -> DstSamples(zone)]}
                  : n \in 2 .. MaxPlays}

InitTime ==
    /\ song_data = {SongRecord("A/A/A", "SOA", "Setanta matins", "ARA", "Elena")}
    /\ tz \in Zones
    /\ log_data \in Plays(tz)
    /\ worker = 0
    /\ pc = "idle"
    /\ run = 0
    /\ error = NoError
    /\ out = NoTables
    /\ aborted = {}
    /\ writer = [p \in Paths |-> 0]
    /\ prev = NoTables

SpecTime == InitTime /\ [][Next]_vars


(***************************************************************************)
(* Properties.                                                             *)
(***************************************************************************)
\* the table at path has been written: the path exists and is not the
\* leftover of a failed write job
Written(path) == path \in DOMAIN out /\ path \notin aborted

\* the rows of a table as a bag of visible rows
Count(table, v) == Cardinality({r \in table : Visible(r) = v})
SameTable(a, b) == \A r \in a \cup b : Count(a, Visible(r)) = Count(b, Visible(r))

Keys(table, key) == {r[key] : r \in table}

\* C1: once process_song_data has written the songs table, it holds exactly
\* one row for every non-null song_id of the input, each row is the projection
\* of an input record, and no row has a null song_id.
C1_SongsOneRowPerSongId ==
    Written(song_parq_path) =>
        LET t == out[song_parq_path]
        IN  /\ \A r \in song_data :
                 r.song_id # Null => Cardinality({q \in t : q.song_id = r.song_id}) = 1
            /\ \A q \in t : q.song_id # Null
            /\ \A q \in t : \E r \in song_data :
                 /\ r.src = q.src
                 /\ \A c \in song_columns : q[c] = r[c]

\* three song files: two with the same song_id, one without song_id
C1_Witness ==
    /\ Written(song_parq_path)
    /\ Cardinality(out[song_parq_path]) = 1
    /\ Cardinality(song_data) = 3
    /\ \E r \in song_data : r.song_id = Null
    /\ \E a, b \in song_data : a # b /\ a.song_id = b.song_id

\* C2: no row of the users, time or songplays table is derived from a log
\* record whose page is not "NextSong".
C2_OnlyNextSongRows ==
    \A l \in log_data :
        l.page # "NextSong" =>
            /\ Written(user_parq_path) => \A q \in out[user_parq_path] : q.src # l.src
            /\ Written(time_parq_path) => \A q \in out[time_parq_path] : q.src # l.src
            /\ Written(songplay_parq_path) =>
                   \A q \in out[songplay_parq_path] : q.src[1] # l.src

\* the three tables are written and not empty, from logs that hold an event
\* that is not a play, whose user and song would have produced rows
C2_Witness ==
    /\ \E l \in log_data :
          /\ l.page # "NextSong" /\ l.userId # Null
          /\ \E s \in song_data : s.title = l.song
    /\ \A p \in {user_parq_path, time_parq_path, songplay_parq_path} :
          Written(p) /\ out[p] # {}

\* C3: in the songplays table every pair of a play and a song record whose
\* title is the play's song has exactly one row, carrying the play's user and
\* the record's song_id; every other pair has none, so a play whose song is no
\* record's title has no row at all.
C3_JoinOneRowPerMatch ==
    Written(songplay_parq_path) =>
        LET t == out[songplay_parq_path]
        IN  /\ \A l \in log_data : \A s \in song_data :
                 l.page = "NextSong" =>
                    LET rows == {q \in t : q.src = <<l.src, s.src>>}
                    IN  IF l.song # Null /\ l.song = s.title
                        THEN /\ Cardinality(rows) = 1
                             /\ \A q \in rows : /\ q.song_id = s.song_id
                                                /\ q.artist_id = s.artist_id
                                                /\ q.userId = l.userId
                        ELSE rows = {}
            /\ \A l \in log_data :
                 (\A s \in song_data : s.title # l.song) =>
                    \A q \in t : q.src[1] # l.src

\* a play that matches two song records with the same title (two rows) and a
\* play that matches none
C3_Witness ==
    /\ Written(songplay_parq_path)
    /\ \E l \in log_data :
          /\ l.page = "NextSong"
          /\ Cardinality({s \in song_data : s.title = l.song}) = 2
          /\ Cardinality({q \in out[songplay_parq_path] : q.src[1] = l.src}) = 2
    /\ \E l \in log_data :
          /\ l.page = "NextSong"
          /\ \A s \in song_data : s.title # l.song

\* C4: no two rows of the time table have the same start_time.
C4_TimeRowsDistinct ==
    Written(time_parq_path) =>
        \A a, b \in out[time_parq_path] : a.start_time = b.start_time => a = b

\* C5, as claimed: a run never fails because a path exists, and after a
\* complete run every table holds the rows that run wrote.
C5_EachRunOverwrites ==
    /\ error.kind # "AnalysisException: path already exists"
    /\ pc = "done" => \A p \in Paths : Written(p) /\ writer[p] = run

\* C5, amended: a path that exists (a table, or the directory left by a
\* failed write) is never written again until the output location is
\* emptied: a stage that finds its path ends the run in failure and every
\* path stays as the run that created it left it.
C5_ExistingPathsAreKept ==
    [][ /\ \A p \in DOMAIN out :
              \/ /\ p \in DOMAIN out' /\ out'[p] = out[p] /\ writer'[p] = writer[p]
                 /\ (p \in aborted' <=> p \in aborted)
              \/ out' = NoTables
        /\ (pc \in LogStages \cup SongStages /\ StagePath(pc) \in DOMAIN out)
              => (pc' = "failed" /\ out' = out) ]_vars

\* a second run against the complete output of the first: it fails at its
\* first write and the five tables are still those of the first run
C5_Witness ==
    /\ run = 2
    /\ pc = "failed"
    /\ error = [stage |-> "users", kind |-> "AnalysisException: path already exists"]
    /\ \A p \in Paths : Written(p) /\ writer[p] = 1

\* independent inverse of the calendar conversion
LeapYearsBefore(y) == (y - 1) \div 4 - (y - 1) \div 100 + (y - 1) \div 400
DaysFromCivil(y, m, d) ==
    365 * (y - 1970) + LeapYearsBefore(y) - LeapYearsBefore(1970)
        + DaysBeforeMonth(y, m) + d - 1
SecondsOfCivil(c) ==
    DaysFromCivil(c.year, c.month, c.day) * 86400 + c.hour * 3600 + c.minute * 60 + c.second
WellFormedCivil(c) ==
    /\ c.month \in 1 .. 12
    /\ c.day \in 1 .. DaysInMonth(c.year, c.month)
    /\ c.hour \in 0 .. 23 /\ c.minute \in 0 .. 59 /\ c.second \in 0 .. 59

TimeRowOf(l) == {q \in out[time_parq_path] : q.src = l.src}

\* C6, as claimed: year and month of a time row are those of the UTC calendar
\* date of ts, and ts = 1542241826796 gives 2018-11-14T21:43:46Z.
C6_UtcCalendar ==
    Written(time_parq_path) =>
        \A l \in df : \A q \in TimeRowOf(l) :
            LET u == Civil(q.start_time.sec, 0)
            IN  /\ q.year = ToString(u.year)
                /\ q.month = ToString(u.month)
                /\ l.ts = SampleTs =>
                      /\ <<u.year, u.month, u.day>> = <<2018, 11, 14>>
                      /\ <<u.hour, u.minute, u.second>> = <<21, 43, 46>>

\* the instant sec lies in the two hours around the end of a daylight-saving
\* time of the zone, whose wall clocks occur twice (once before the clocks
\* are set back and once after)
InRepeatedHour(zone, sec) ==
    \E iv \in zone.dst : iv[2] - 3600 <= sec /\ sec < iv[2] + 3600

\* C6, amended: start_time is the instant whose wall clock in the local time
\* zone is that of ts milliseconds after the epoch: that instant itself,
\* except that in the two hours around the end of a daylight-saving time it
\* can be the other instant with the same wall clock, one hour before or
\* after (which one depends on what the worker converted before); year and
\* month of the row are those of that wall clock;
\* ts = 1542241826796 gives 2018-11-15T00:30:26.796Z, year 2018 and month 11.
C6_InstantAndZoneCalendar ==
    Written(time_parq_path) =>
        \A l \in df : \A q \in TimeRowOf(l) :
            LET c == Civil(l.ts.s, UtcOffset(tz, l.ts.s))
                d == Civil(q.start_time.sec, UtcOffset(tz, q.start_time.sec))
                u == Civil(q.start_time.sec, 0)
            IN  /\ q.start_time.sec \in {l.ts.s - 3600, l.ts.s, l.ts.s + 3600}
                /\ ~InRepeatedHour(tz, l.ts.s) => q.start_time.sec = l.ts.s
                /\ q.start_time.us = l.ts.ms * 1000
                /\ WellFormedCivil(c)
                /\ SecondsOfCivil(c) = l.ts.s + UtcOffset(tz, l.ts.s) * 60
                /\ <<d.year, d.month, d.day, d.hour, d.minute, d.second>>
                      = <<c.year, c.month, c.day, c.hour, c.minute, c.second>>
                /\ q.year = ToString(c.year)
                /\ q.month = ToString(c.month)
                /\ WellFormedCivil(u)
                /\ SecondsOfCivil(u) = q.start_time.sec
                /\ l.ts = SampleTs =>
                      /\ <<u.year, u.month, u.day>> = <<2018, 11, 15>>
                      /\ <<u.hour, u.minute, u.second>> = <<0, 30, 26>>
                      /\ q.start_time.us = 796000
                      /\ q.year = "2018" /\ q.month = "11"

\* the sample ts converted in Los Angeles, where the day is another, between
\* two plays at the second 01:30 of the night the clocks are set back: the
\* first is stored an hour early, the last as it is
C6_Witness ==
    /\ Written(time_parq_path)
    /\ tz = LosAngeles
    /\ \E l \in df : /\ l.ts = SampleTs
                     /\ \E q \in TimeRowOf(l) : q.year = "2018" /\ q.month = "11" /\ q.day = "318"
    /\ \E a, b \in df :
          /\ a.ts = SecondHalfPastOne /\ b.ts = SecondHalfPastOne
          /\ \E q \in TimeRowOf(a) : q.start_time.sec = a.ts.s - 3600
          /\ \E q \in TimeRowOf(b) : q.start_time.sec = b.ts.s

\* both runs are complete, each wrote into an emptied location, and prev
\* holds what the earlier one wrote to one of the paths
TwoCompleteRuns == pc = "done" /\ prev # NoTables

Remembered(path) == TwoCompleteRuns /\ path \in DOMAIN prev

\* C7, as claimed: two complete runs on the same inputs, each into an emptied
\* output location, write the same five tables up to the order of the rows.
C7_RunsWriteSameTables ==
    TwoCompleteRuns => \A p \in DOMAIN prev : SameTable(prev[p], out[p])

WithoutColumn(table, col) == {[c \in DOMAIN r \ {col} |-> r[c]] : r \in table}

\* the values of `key` that several records of data carry with different
\* values in the columns cols
Contended(data, key, cols) ==
    {r[key] : r \in {a \in data : \E b \in data :
                        a[key] = b[key] /\ \E c \in cols : a[c] # b[c]}}

Uncontended(table, key, data, cols) ==
    {r \in table : r[key] \notin Contended(data, key, cols)}

\* start_time as the wall clock of the zone shows it
OnWallClock(table, zone) ==
    {[r EXCEPT !.start_time = [wall |-> fromtimestamp(r.start_time.sec, zone),
                               us |-> r.start_time.us]] : r \in table}

\* the rows whose start_time has a wall clock that occurs once
OutsideRepeatedHour(table, zone) ==
    {r \in table : ~InRepeatedHour(zone, r.start_time.sec)}

\* the same rows, but that a start_time in the two hours around the end of a
\* daylight-saving time can be either instant of its wall clock
SameUpToRepeatedHour(a, b, zone) ==
    /\ SameTable(OnWallClock(a, zone), OnWallClock(b, zone))
    /\ SameTable(OutsideRepeatedHour(a, zone), OutsideRepeatedHour(b, zone))

\* C7, amended: the two runs write the same time rows and the same songplays
\* rows apart from songplay_id, but that a start_time whose wall clock occurs
\* twice (around the end of a daylight-saving time) can be either of its two
\* instants in each run; and users, songs and artists tables with the same
\* keys and the same row for every key whose records agree on the columns of
\* the table; they can differ in songplay_id and in the row kept for a
\* userId, song_id or artist_id whose records differ.
C7_RunsAgreeUpToChoices ==
    /\ Remembered(time_parq_path) =>
          SameUpToRepeatedHour(prev[time_parq_path], out[time_parq_path], tz)
    /\ Remembered(songplay_parq_path) =>
          SameUpToRepeatedHour(WithoutColumn(prev[songplay_parq_path], "songplay_id"),
                               WithoutColumn(out[songplay_parq_path], "songplay_id"), tz)
    /\ Remembered(user_parq_path) =>
          /\ Keys(prev[user_parq_path], "userId") = Keys(out[user_parq_path], "userId")
          /\ SameTable(Uncontended(prev[user_parq_path], "userId", df, user_columns),
                       Uncontended(out[user_parq_path], "userId", df, user_columns))
    /\ Remembered(song_parq_path) =>
          /\ Keys(prev[song_parq_path], "song_id") = Keys(out[song_parq_path], "song_id")
          /\ SameTable(Uncontended(prev[song_parq_path], "song_id", song_data, song_columns),
                       Uncontended(out[song_parq_path], "song_id", song_data, song_columns))
    /\ Remembered(artist_parq_path) =>
          /\ Keys(prev[artist_parq_path], "artist_id") = Keys(out[artist_parq_path], "artist_id")
          /\ SameTable(Uncontended(prev[artist_parq_path], "artist_id", song_data, artist_columns),
                       Uncontended(out[artist_parq_path], "artist_id", song_data, artist_columns))

\* two complete runs that kept different rows for the same user
C7_Witness ==
    /\ Remembered(user_parq_path)
    /\ \E a \in prev[user_parq_path] : \E b \in out[user_parq_path] :
          a.userId = b.userId /\ a.level # b.level

LogPaths == {user_parq_path, time_parq_path, songplay_parq_path}
SongPaths == {song_parq_path, artist_parq_path}

\* C8: the song transform runs only after the log transform of the same run
\* has written its three tables; a run in which a stage has failed is over
\* (nothing is retried), and when the failure is in the session creation or
\* in the log transform the run writes neither songs nor artists.
C8_OneChainNoRetry ==
    /\ pc \in SongStages => \A p \in LogPaths : Written(p) /\ writer[p] = run
    /\ \A p \in SongPaths :
          (run > 0 /\ writer[p] = run) => \A q \in LogPaths : writer[q] = run
    /\ error # NoError => pc \in {"failed", "idle"}
    /\ (error.stage \in LogStages \cup {"create_spark_session"}) =>
          \A p \in SongPaths : writer[p] # run

\* the log transform failed after its first write: users is written by this
\* run, songs and artists are not
C8_Witness ==
    /\ pc = "failed"
    /\ error.stage = "time"
    /\ Written(user_parq_path) /\ writer[user_parq_path] = run
    /\ ~Written(song_parq_path) /\ ~Written(artist_parq_path)

\* C9: no two rows of the songplays table have the same songplay_id.
C9_SongplayIdsUnique ==
    Written(songplay_parq_path) =>
        \A a, b \in out[songplay_parq_path] : a.songplay_id = b.songplay_id => a = b

\* two rows in different partitions: the ids 0 and 2^33 are not contiguous
C9_Witness ==
    /\ Written(songplay_parq_path)
    /\ \E a, b \in out[songplay_parq_path] :
          a.songplay_id = <<0, 0>> /\ b.songplay_id = <<1, 0>>

WriteSequence == <<user_parq_path, time_parq_path, songplay_parq_path,
                   song_parq_path, artist_parq_path>>

StageIndex(stage) ==
    CASE stage = "create_spark_session" -> 0
      [] stage = "users" -> 1
      [] stage = "time" -> 2
      [] stage = "songplays" -> 3
      [] stage = "songs" -> 4
      [] stage = "artists" -> 5

\* C10: the paths present, and the tables written among them, are always the
\* first of the write sequence users, time, songplays, songs, artists; while
\* a run into an empty location is at a stage, and after it has failed
\* there, the tables written are exactly those of the stages before it (what
\* was written stays); the only path without a table is the directory that
\* the failed write has left.
C10_OutputIsPrefix ==
    LET n == Cardinality(DOMAIN out)
        m == Cardinality(DOMAIN out \ aborted)
        fresh == \A p \in DOMAIN out : writer[p] = run
    IN  /\ DOMAIN out = {WriteSequence[i] : i \in 1 .. n}
        /\ DOMAIN out \ aborted = {WriteSequence[i] : i \in 1 .. m}
        /\ aborted \subseteq DOMAIN out /\ n - m <= 1
        /\ (fresh /\ pc \in Running) =>
              /\ aborted = {}
              /\ m = StageIndex(pc) - (IF pc = "create_spark_session" THEN 0 ELSE 1)
        /\ (fresh /\ pc = "failed" /\ error.stage # "create_spark_session") =>
              /\ m = StageIndex(error.stage) - 1
              /\ aborted \subseteq {StagePath(error.stage)}

\* a run that failed in the join: users and time are there, nothing else
C10_Witness ==
    /\ pc = "failed"
    /\ error.stage = "songplays"
    /\ {p \in Paths : Written(p)} = {user_parq_path, time_parq_path}
    /\ \A p \in DOMAIN out : writer[p] = run

=============================================================================
